---------------------------- MODULE Spec2Model ----------------------------
(***************************************************************************)
(* The real-time layer of the Messenger server (src/server/index.js): the  *)
(* socket.io connection handler with its authenticate, join_conversation,  *)
(* send_message and disconnect handlers, the onlineUsers map, the messages *)
(* table of the SQLite store, and the asynchronous completions             *)
(* (verifyToken, findUserById, db.run, db.all) at which handlers suspend.  *)
(*                                                                         *)
(* An event "emitted to socket s" is the server calling socket.emit /      *)
(* io.emit / io.to(room).emit with s among the targets.  The socket.io     *)
(* default room of a socket (its own id) is not a conversation room and is *)
(* left out.  The events of a step stay in "emitted" until the transport   *)
(* takes them (Flush), which happens before the next event is handled.     *)
(*                                                                         *)
(* Spec starts at the server's start (SpecLive adds the server's          *)
(* fairness); SpecChat and SpecTyping start with three authenticated        *)
(* connections, two of them joined to a conversation; SpecOffline starts   *)
(* after a message was stored for a user who had no connection.            *)
(* SpecRoom (SpecRoomLive with fairness) starts with one authenticated     *)
(* connection whose payloads carry ids of one and two digits; SpecFriends  *)
(* is the POST /api/friends/add route over the friends table.  An event    *)
(* without payload that throws outside a try block reaches the process's   *)
(* uncaughtException / unhandledRejection handlers (server).               *)
(* SpecClient (SpecClientLive with fairness) adds the Chat component of    *)
(* one browser (src/unnamed/part_001): its message list, its selected      *)
(* friend, and its reconnection.                                           *)
(***************************************************************************)
EXTENDS Integers, Sequences, FiniteSets, Bags, TLC

\* ------------------------------------------------------------------ bounds
MaxRequests == 2     \* requests accepted (handlers that reach an await or a store call)
ChatRequests == 2    \* the same, in the conversation scenario
OfflineRequests == 2 \* the same, in the offline-receiver scenario
RoomRequests == 1    \* the same, in the room-id scenario
ClientRequests == 3  \* the same, in the Chat component scenario
FriendRequests == 3  \* add-friend requests that pass authenticateToken
MaxUserId == 12      \* the largest user id of a payload in the room-id scenario
MaxClock == 1        \* seconds the store clock may advance

\* ------------------------------------------------------- program constants
HistoryLimit == 50   \* LIMIT 50 of the join_conversation history query

\* --------------------------------------------------------------- universes
\* socket ids, named in the order the connections arrive
Sockets == {"s1", "s2", "s3"}

Before(a, b) == <<a, b>> \in {<<"s1", "s2">>, <<"s1", "s3">>, <<"s2", "s3">>}

\* users table: AUTOINCREMENT ids, never deleted
UserIds == {1, 2}

\* ids a client payload or a token may carry (3 is no row of users)
Ids == {1, 2, 3}

UserName(u) == IF u = 1 THEN "An" ELSE IF u = 2 THEN "Binh" ELSE "?"

\* a token is missing, carries a bad signature, or verifies to an id
Tokens ==
  {[sig |-> "none", id |-> 0], [sig |-> "bad", id |-> 1]}
    \cup {[sig |-> "ok", id |-> i] : i \in Ids}

\* message texts as character sequences
Contents == {<<>>, <<" ">>, <<" ", "h">>}

\* (userId, friendId) of a join_conversation payload, (senderId, receiverId) of
\* a send_message payload
Pairs == {<<1, 2>>, <<2, 1>>, <<2, 3>>}

\* ------------------------------------------------------------ pure helpers
IsSpace(ch) == ch = " "

RECURSIVE TrimStart(_)
TrimStart(str) ==
  IF str # <<>> /\ IsSpace(Head(str)) THEN TrimStart(Tail(str)) ELSE str

RECURSIVE TrimEnd(_)
TrimEnd(str) ==
  IF str # <<>> /\ IsSpace(str[Len(str)])
    THEN TrimEnd(SubSeq(str, 1, Len(str) - 1))
    ELSE str

\* String.prototype.trim
Trim(str) == TrimEnd(TrimStart(str))

Digit(d) ==
  CASE d = 0 -> "0" [] d = 1 -> "1" [] d = 2 -> "2" [] d = 3 -> "3"
    [] d = 4 -> "4" [] d = 5 -> "5" [] d = 6 -> "6" [] d = 7 -> "7"
    [] d = 8 -> "8" [] d = 9 -> "9"

\* Number.prototype.toString of a non-negative integer, as Array.join applies it
RECURSIVE NumToString(_)
NumToString(n) ==
  IF n < 10 THEN <<Digit(n)>> ELSE NumToString(n \div 10) \o <<Digit(n % 10)>>

\* the join without the sort
RoomIdUnsorted(a, b) == NumToString(a) \o <<"-">> \o NumToString(b)

\* [a, b].sort((x, y) => x - y).join('-')
RoomId(a, b) ==
  LET lo == IF a - b <= 0 THEN a ELSE b
      hi == IF a - b <= 0 THEN b ELSE a
  IN NumToString(lo) \o <<"-">> \o NumToString(hi)

RoomIds == {RoomId(a, b) : a \in Ids, b \in Ids}

\* ------------------------------------------------------------------- state
VARIABLES
  sockets,      \* per socket: connection state, socket.userId, socket.userName, rooms joined
  onlineUsers,  \* the onlineUsers Map, in insertion order
  oldRows,      \* rows the messages table held before the server started
  rows,         \* rows inserted into messages since the server started
  now,          \* the store clock (CURRENT_TIMESTAMP), in seconds
  auths,        \* authenticate handlers suspended at an await
  joins,        \* join_conversation history reads (db.all) not yet answered
  sends,        \* send_message writes (db.run) whose callback has not run yet, in call order
  budget,       \* how many more requests are accepted
  emitted,      \* per socket: the events emitted to it by the latest step
  server,       \* the process: listening, closing (shutdown called), exited
  friends,      \* the rows of the friends table, in insertion order
  adds,         \* POST /api/friends/add requests suspended at an await or a store call
  replies,      \* the HTTP responses sent by the latest step
  client        \* the Chat component of user 1's browser: React state

vars ==
  <<sockets, onlineUsers, oldRows, rows, now, auths, joins, sends, budget,
    emitted, server, friends, adds, replies, client>>

NoEvents == [s \in Sockets |-> <<>>]

\* the Chat component as it mounts: no friend selected, no messages; received
\* and authErrorOn are bookkeeping: the ids of the messages of the open
\* conversation received since it was opened, and the connection on which an
\* auth_error arrived (setConnected(false))
NoClient == [selectedFriend |-> 0, messages |-> <<>>, received |-> {}, authErrorOn |-> ""]

\* the process runs and what the latest step sent has left: the next event is
\* dispatched
Idle == server # "exited" /\ emitted = NoEvents /\ replies = <<>>

Event(ev, text, body) == [ev |-> ev, text |-> text, body |-> body]

\* socket.emit(ev, ...)
EmitTo(s, e) == [t \in Sockets |-> IF t = s THEN <<e>> ELSE <<>>]

\* sockets of the namespace that are connected
Connected == {s \in Sockets : sockets[s].state = "open"}

\* io.emit(ev, ...): every connected socket
EmitAll(e) == [t \in Sockets |-> IF t \in Connected THEN <<e>> ELSE <<>>]

\* the sockets in a room
RoomMembers(room) == {s \in Sockets : room \in sockets[s].rooms}

\* io.to(room).emit(ev, ...)
EmitRoom(room, e) ==
  [t \in Sockets |-> IF t \in RoomMembers(room) THEN <<e>> ELSE <<>>]

\* f followed by g, socket by socket
Then(f, g) == [t \in Sockets |-> f[t] \o g[t]]

\* ---------------------------------------------------------- messages table
\* the rows present at start: earlier messages from user 1 to user 2, one per
\* second before the clock's origin, the first two within the same second
\* (CURRENT_TIMESTAMP counts whole seconds)
OldRow(i) ==
  [id |-> i, sender_id |-> 1, receiver_id |-> 2, content |-> <<"h">>,
   timestamp |-> IF i = 1 THEN 1 - oldRows ELSE i - oldRows - 1]

\* the messages table
Messages == [i \in 1..oldRows |-> OldRow(i)] \o rows

\* sqlite's last_insert_rowid after the next INSERT (AUTOINCREMENT)
NextId == oldRows + Len(rows) + 1

Init ==
  /\ sockets = [s \in Sockets |->
                  [state |-> "new", userId |-> 0, userName |-> "", rooms |-> {}]]
  /\ onlineUsers = <<>>
  /\ oldRows = 0
  /\ rows = <<>>
  /\ now = 0
  /\ auths = EmptyBag
  /\ joins = EmptyBag
  /\ sends = <<>>
  /\ budget = MaxRequests
  /\ emitted = NoEvents
  /\ server = "listening"
  /\ friends = <<>>
  /\ adds = EmptyBag
  /\ replies = <<>>
  /\ client = NoClient

\* ------------------------------------------------------- the onlineUsers Map
MapHas(m, key) == \E i \in DOMAIN m : m[i].socketId = key

\* a list that takes every value set, whatever its key
MapSetAppend(m, key, val) == Append(m, val)

\* Map.prototype.set: a present key keeps its place
MapSet(m, key, val) ==
  IF MapHas(m, key)
    THEN [i \in DOMAIN m |-> IF m[i].socketId = key THEN val ELSE m[i]]
    ELSE Append(m, val)

\* Map.prototype.delete
MapDelete(m, key) == SelectSeq(m, LAMBDA e : e.socketId # key)

\* Array.from(onlineUsers.values())
OnlineList(m) == m

\* ---------------------------------------------------------------- handlers
\* the connection handler running the authenticate handler itself for a
\* handshake token
ConnectAutoAuthenticates(s, handshakeToken) ==
  /\ Idle
  /\ server = "listening"
  /\ sockets[s].state = "new"
  /\ \A t \in Sockets : Before(t, s) => sockets[t].state # "new"
  /\ sockets' = [sockets EXCEPT ![s].state = "open"]
  /\ emitted' = NoEvents
  /\ auths' = IF handshakeToken
                THEN auths (+) SetToBag({[sock |-> s, token |-> [sig |-> "ok", id |-> 1]]})
                ELSE auths
  /\ UNCHANGED <<onlineUsers, oldRows, rows, now, joins, sends, budget>>
  /\ UNCHANGED <<server, friends, adds, replies>>
  /\ UNCHANGED client

\* io.on('connection'): a client connects and the handlers are registered; with
\* a token in the handshake the server emits an 'authenticate' event to the client
Connect(s, handshakeToken) ==
  /\ Idle
  /\ server = "listening"
  /\ sockets[s].state = "new"
  /\ \A t \in Sockets : Before(t, s) => sockets[t].state # "new"
  /\ sockets' = [sockets EXCEPT ![s].state = "open"]
  /\ emitted' = IF handshakeToken
                  THEN EmitTo(s, Event("authenticate", "", <<>>))
                  ELSE NoEvents
  /\ UNCHANGED <<onlineUsers, oldRows, rows, now, auths, joins, sends, budget>>
  /\ UNCHANGED <<server, friends, adds, replies>>
  /\ UNCHANGED client

\* socket.on('authenticate'), up to await findUserById.  jwt.verify calls back
\* before verifyToken returns, so await verifyToken resumes in a microtask, ahead
\* of every other event; a rejection runs the catch block
Authenticate(s, token) ==
  /\ Idle
  /\ sockets[s].state = "open"
  /\ IF token.sig = "none"
       THEN /\ emitted' = EmitTo(s, Event("auth_error", "NoToken", <<>>))
            /\ UNCHANGED <<auths, budget>>
       ELSE IF token.sig = "bad"
       THEN /\ emitted' = EmitTo(s, Event("auth_error", "InvalidToken", <<>>))
            /\ UNCHANGED <<auths, budget>>
       ELSE /\ budget > 0
            /\ budget' = budget - 1
            /\ auths' = auths (+) SetToBag({[sock |-> s, token |-> token]})
            /\ emitted' = NoEvents
  /\ UNCHANGED <<sockets, onlineUsers, oldRows, rows, now, joins, sends>>
  /\ UNCHANGED <<server, friends, adds, replies>>
  /\ UNCHANGED client

\* the entry authenticate stores in onlineUsers
OnlineEntry(s, u) == [socketId |-> s, userId |-> u, name |-> UserName(u)]

\* the handler binding the id of the token without the test of the users row
AuthLookupBindsDecoded(h) ==
  /\ Idle
  /\ BagIn(h, auths)
  /\ auths' = auths (-) SetToBag({h})
  /\ LET u == h.token.id
         m == MapSet(onlineUsers, h.sock, OnlineEntry(h.sock, u))
     IN /\ sockets' = [sockets EXCEPT ![h.sock].userId = u,
                                       ![h.sock].userName = UserName(u)]
        /\ onlineUsers' = m
        /\ emitted' =
             Then(EmitTo(h.sock, Event("auth_success", "", <<u>>)),
                  EmitAll(Event("users_online", "", OnlineList(m))))
  /\ UNCHANGED <<oldRows, rows, now, joins, sends, budget>>
  /\ UNCHANGED <<server, friends, adds, replies>>
  /\ UNCHANGED client

\* await findUserById(decoded.id) resolves: the rest of the handler runs
AuthLookup(h) ==
  /\ Idle
  /\ BagIn(h, auths)
  /\ auths' = auths (-) SetToBag({h})
  /\ IF h.token.id \in UserIds
       THEN LET u == h.token.id
                m == MapSet(onlineUsers, h.sock, OnlineEntry(h.sock, u))
            IN /\ sockets' = [sockets EXCEPT ![h.sock].userId = u,
                                              ![h.sock].userName = UserName(u)]
               /\ onlineUsers' = m
               /\ emitted' =
                    Then(EmitTo(h.sock, Event("auth_success", "", <<u>>)),
                         EmitAll(Event("users_online", "", OnlineList(m))))
       ELSE /\ emitted' = EmitTo(h.sock, Event("auth_error", "NoUser", <<>>))
            /\ UNCHANGED <<sockets, onlineUsers>>
  /\ UNCHANGED <<oldRows, rows, now, joins, sends, budget>>
  /\ UNCHANGED <<server, friends, adds, replies>>
  /\ UNCHANGED client

\* await findUserById(decoded.id) rejects (a store error): the catch block
AuthLookupFail(h) ==
  /\ Idle
  /\ BagIn(h, auths)
  /\ auths' = auths (-) SetToBag({h})
  /\ emitted' = EmitTo(h.sock, Event("auth_error", "InvalidToken", <<>>))
  /\ UNCHANGED <<sockets, onlineUsers, oldRows, rows, now, joins, sends, budget>>
  /\ UNCHANGED <<server, friends, adds, replies>>
  /\ UNCHANGED client

\* the disconnect handler taking its snapshot before the delete
DisconnectListFirst(s) ==
  /\ Idle
  /\ sockets[s].state = "open"
  /\ sockets' = [sockets EXCEPT ![s].state = "closed", ![s].rooms = {}]
  /\ onlineUsers' = MapDelete(onlineUsers, s)
  /\ emitted' = [t \in Sockets |->
                   IF t \in Connected \ {s}
                     THEN <<Event("users_online", "", OnlineList(onlineUsers))>>
                     ELSE <<>>]
  /\ UNCHANGED <<oldRows, rows, now, auths, joins, sends, budget>>
  /\ UNCHANGED <<server, friends, adds, replies>>
  /\ UNCHANGED client

\* the client goes away: socket.io takes the socket out of its rooms and of the
\* namespace, then runs socket.on('disconnect')
Disconnect(s) ==
  /\ Idle
  /\ sockets[s].state = "open"
  /\ sockets' = [sockets EXCEPT ![s].state = "closed", ![s].rooms = {}]
  /\ onlineUsers' = MapDelete(onlineUsers, s)
  /\ emitted' = [t \in Sockets |->
                   IF t \in Connected \ {s}
                     THEN <<Event("users_online", "", OnlineList(onlineUsers'))>>
                     ELSE <<>>]
  /\ UNCHANGED <<oldRows, rows, now, auths, joins, sends, budget>>
  /\ UNCHANGED <<server, friends, adds, replies>>
  /\ UNCHANGED client

\* ----------------------------------------------------------- history query
\* WHERE (sender_id = userId AND receiver_id = friendId)
\*    OR (sender_id = friendId AND receiver_id = userId), JOIN users ON sender_id
Matching(userId, friendId) ==
  LET all == Messages
  IN {all[k] : k \in
        {i \in DOMAIN all :
           /\ all[i].sender_id \in UserIds
           /\ \/ all[i].sender_id = userId /\ all[i].receiver_id = friendId
              \/ all[i].sender_id = friendId /\ all[i].receiver_id = userId}}

RECURSIVE Perms(_)
Perms(S) ==
  IF S = {} THEN {<<>>}
  ELSE UNION {{<<x>> \o p : p \in Perms(S \ {x})} : x \in S}

\* the orders of the rows of S with timestamps t..hi, ascending by timestamp
RECURSIVE OrdersFrom(_, _, _)
OrdersFrom(S, t, hi) ==
  IF t > hi THEN {<<>>}
  ELSE {p \o q : p \in Perms({m \in S : m.timestamp = t}),
                 q \in OrdersFrom(S, t + 1, hi)}

\* ORDER BY timestamp ASC: rows of equal timestamp come in an order SQL leaves open
Orders(S) ==
  IF S = {} THEN {<<>>}
  ELSE LET ts == {m.timestamp : m \in S}
           lo == CHOOSE t \in ts : \A u \in ts : t <= u
           hi == CHOOSE t \in ts : \A u \in ts : u <= t
       IN OrdersFrom(S, lo, hi)

\* LIMIT n
Limit(q, n) == SubSeq(q, 1, IF Len(q) < n THEN Len(q) ELSE n)

\* the rows a history read of (userId, friendId) may return
HistoryResults(userId, friendId) ==
  {Limit(q, HistoryLimit) : q \in Orders(Matching(userId, friendId))}

\* a row as join_conversation formats it (sender_name from the users join)
Formatted(m) ==
  [id |-> m.id, senderId |-> m.sender_id, receiverId |-> m.receiver_id,
   content |-> m.content, timestamp |-> <<"sql", m.timestamp>>,
   senderName |-> UserName(m.sender_id)]

FormattedMessages(q) == [i \in DOMAIN q |-> Formatted(q[i])]

\* --------------------------------------------------------- join_conversation
\* if (!socket.userId)
NotAuthenticated(s) == sockets[s].userId = 0

\* socket.on('join_conversation'), up to the db.all call: what the handler does
\* on the server
JoinHandler(s, userId, friendId) ==
  /\ Idle
  /\ sockets[s].state = "open"
  /\ IF NotAuthenticated(s)
       THEN /\ emitted' = EmitTo(s, Event("error", "NotAuthenticated", <<>>))
            /\ UNCHANGED <<sockets, joins, budget>>
       ELSE /\ budget > 0
            /\ budget' = budget - 1
            /\ sockets' = [sockets EXCEPT ![s].rooms = @ \cup {RoomId(userId, friendId)}]
            /\ joins' = joins (+) SetToBag(
                 {[sock |-> s, userId |-> userId, friendId |-> friendId,
                   at |-> "queued", err |-> FALSE, messages |-> <<>>]})
            /\ emitted' = NoEvents
  /\ UNCHANGED <<onlineUsers, oldRows, rows, now, auths, sends>>
  /\ UNCHANGED <<server, friends, adds, replies>>

\* a join_conversation event of any client
JoinConversation(s, userId, friendId) ==
  /\ JoinHandler(s, userId, friendId)
  /\ UNCHANGED client

\* the store runs the history SELECT of a join
DbAll(j) ==
  /\ Idle
  /\ BagIn(j, joins)
  /\ j.at = "queued"
  /\ \E q \in HistoryResults(j.userId, j.friendId) :
       joins' = (joins (-) SetToBag({j}))
                  (+) SetToBag({[j EXCEPT !.at = "read", !.messages = q]})
  /\ emitted' = NoEvents
  /\ UNCHANGED <<sockets, onlineUsers, oldRows, rows, now, auths, sends, budget>>
  /\ UNCHANGED <<server, friends, adds, replies>>
  /\ UNCHANGED client

\* the history SELECT fails in the store
DbAllFail(j) ==
  /\ Idle
  /\ BagIn(j, joins)
  /\ j.at = "queued"
  /\ joins' = (joins (-) SetToBag({j}))
               (+) SetToBag({[j EXCEPT !.at = "read", !.err = TRUE]})
  /\ emitted' = NoEvents
  /\ UNCHANGED <<sockets, onlineUsers, oldRows, rows, now, auths, sends, budget>>
  /\ UNCHANGED <<server, friends, adds, replies>>
  /\ UNCHANGED client

\* the db.all callback of join_conversation: (err, messages) => ...
JoinCallback(j) ==
  /\ Idle
  /\ BagIn(j, joins)
  /\ j.at = "read"
  /\ joins' = joins (-) SetToBag({j})
  /\ emitted' = IF ~j.err
                  THEN EmitTo(j.sock, Event("message_history", "",
                                            FormattedMessages(j.messages)))
                  ELSE NoEvents
  /\ UNCHANGED <<sockets, onlineUsers, oldRows, rows, now, auths, sends, budget>>
  /\ UNCHANGED <<server, friends, adds, replies>>
  /\ UNCHANGED client

\* -------------------------------------------------------------- send_message
\* the test without trim()
EmptyContentUntrimmed(content) == Len(content) = 0

\* if (!content || !content.trim())
EmptyContent(content) == Len(content) = 0 \/ Len(Trim(content)) = 0

\* the sender check left out
ForbiddenMissing(s, senderId) == FALSE

\* if (senderId !== socket.userId)
Forbidden(s, senderId) == senderId # sockets[s].userId

\* send_message with the sender check ahead of the content check
SendMessageForbiddenFirst(s, senderId, receiverId, content) ==
  /\ Idle
  /\ sockets[s].state = "open"
  /\ IF NotAuthenticated(s)
       THEN /\ emitted' = EmitTo(s, Event("error", "NotAuthenticated", <<>>))
            /\ UNCHANGED <<sends, budget>>
       ELSE IF Forbidden(s, senderId)
       THEN /\ emitted' = EmitTo(s, Event("error", "Forbidden", <<>>))
            /\ UNCHANGED <<sends, budget>>
       ELSE IF EmptyContent(content)
       THEN /\ emitted' = EmitTo(s, Event("error", "EmptyContent", <<>>))
            /\ UNCHANGED <<sends, budget>>
       ELSE /\ budget > 0
            /\ budget' = budget - 1
            /\ sends' = Append(sends,
                 [sock |-> s, senderId |-> senderId, receiverId |-> receiverId,
                  content |-> content, at |-> "queued", lastID |-> 0])
            /\ emitted' = NoEvents
  /\ UNCHANGED <<sockets, onlineUsers, oldRows, rows, now, auths, joins>>
  /\ UNCHANGED <<server, friends, adds, replies>>
  /\ UNCHANGED client

\* socket.on('send_message'), up to the db.run call
SendMessage(s, senderId, receiverId, content) ==
  /\ Idle
  /\ sockets[s].state = "open"
  /\ IF NotAuthenticated(s)
       THEN /\ emitted' = EmitTo(s, Event("error", "NotAuthenticated", <<>>))
            /\ UNCHANGED <<sends, budget>>
       ELSE IF EmptyContent(content)
       THEN /\ emitted' = EmitTo(s, Event("error", "EmptyContent", <<>>))
            /\ UNCHANGED <<sends, budget>>
       ELSE IF Forbidden(s, senderId)
       THEN /\ emitted' = EmitTo(s, Event("error", "Forbidden", <<>>))
            /\ UNCHANGED <<sends, budget>>
       ELSE /\ budget > 0
            /\ budget' = budget - 1
            /\ sends' = Append(sends,
                 [sock |-> s, senderId |-> senderId, receiverId |-> receiverId,
                  content |-> content, at |-> "queued", lastID |-> 0])
            /\ emitted' = NoEvents
  /\ UNCHANGED <<sockets, onlineUsers, oldRows, rows, now, auths, joins>>
  /\ UNCHANGED <<server, friends, adds, replies>>
  /\ UNCHANGED client

\* the INSERT with the content as the payload carries it
DbRunUntrimmed(i) ==
  /\ Idle
  /\ i \in DOMAIN sends
  /\ sends[i].at = "queued"
  /\ rows' = Append(rows,
       [id |-> NextId, sender_id |-> sends[i].senderId,
        receiver_id |-> sends[i].receiverId,
        content |-> sends[i].content, timestamp |-> now])
  /\ sends' = [sends EXCEPT ![i].at = "written", ![i].lastID = NextId]
  /\ emitted' = NoEvents
  /\ UNCHANGED <<sockets, onlineUsers, oldRows, now, auths, joins, budget>>
  /\ UNCHANGED <<server, friends, adds, replies>>
  /\ UNCHANGED client

\* the store runs the INSERT of a send_message: id and timestamp are assigned
DbRun(i) ==
  /\ Idle
  /\ i \in DOMAIN sends
  /\ sends[i].at = "queued"
  /\ rows' = Append(rows,
       [id |-> NextId, sender_id |-> sends[i].senderId,
        receiver_id |-> sends[i].receiverId,
        content |-> Trim(sends[i].content), timestamp |-> now])
  /\ sends' = [sends EXCEPT ![i].at = "written", ![i].lastID = NextId]
  /\ emitted' = NoEvents
  /\ UNCHANGED <<sockets, onlineUsers, oldRows, now, auths, joins, budget>>
  /\ UNCHANGED <<server, friends, adds, replies>>
  /\ UNCHANGED client

\* the INSERT fails in the store: no row is written
DbRunFail(i) ==
  /\ Idle
  /\ i \in DOMAIN sends
  /\ sends[i].at = "queued"
  /\ sends' = [sends EXCEPT ![i].at = "failed"]
  /\ emitted' = NoEvents
  /\ UNCHANGED <<sockets, onlineUsers, oldRows, rows, now, auths, joins, budget>>
  /\ UNCHANGED <<server, friends, adds, replies>>
  /\ UNCHANGED client

\* the message object the db.run callback builds
NewMessage(r) ==
  [id |-> r.lastID, senderId |-> r.senderId, receiverId |-> r.receiverId,
   content |-> Trim(r.content), timestamp |-> <<"iso", now>>,
   senderName |-> sockets[r.sock].userName]

\* socket.to(roomId) in place of io.to(roomId): the room without the sender
BroadcastTargetsExceptSender(r) ==
  RoomMembers(RoomId(r.senderId, r.receiverId)) \ {r.sock}

\* the sockets the db.run callback emits new_message to
BroadcastTargets(r) == RoomMembers(RoomId(r.senderId, r.receiverId))

\* the callback without the return of its error branch
CallbackEmitsNoReturn(r) ==
  Then(IF r.at = "failed"
         THEN EmitTo(r.sock, Event("error", "SaveFailed", <<>>))
         ELSE NoEvents,
       [t \in Sockets |->
          IF t \in BroadcastTargets(r)
            THEN <<Event("new_message", "", <<NewMessage(r)>>)>>
            ELSE <<>>])

\* the events the db.run callback emits: function(err) { ... }
CallbackEmits(r) ==
  IF r.at = "failed"
    THEN EmitTo(r.sock, Event("error", "SaveFailed", <<>>))
    ELSE [t \in Sockets |->
            IF t \in BroadcastTargets(r)
              THEN <<Event("new_message", "", <<NewMessage(r)>>)>>
              ELSE <<>>]

\* q without its i-th element
Remove(q, i) == SubSeq(q, 1, i - 1) \o SubSeq(q, i + 1, Len(q))

\* the db.run callback of send_message
SendCallback(i) ==
  /\ Idle
  /\ i \in DOMAIN sends
  /\ sends[i].at \in {"written", "failed"}
  /\ sends' = Remove(sends, i)
  /\ emitted' = CallbackEmits(sends[i])
  /\ UNCHANGED <<sockets, onlineUsers, oldRows, rows, now, auths, joins, budget>>
  /\ UNCHANGED <<server, friends, adds, replies>>
  /\ UNCHANGED client

\* ------------------------------------------------------------------- typing
\* socket.on('typing'): socket.to(roomId) is the room without this socket
Typing(s, receiverId, isTyping) ==
  /\ Idle
  /\ sockets[s].state = "open"
  /\ emitted' =
       IF NotAuthenticated(s)
         THEN NoEvents
         ELSE [t \in Sockets |->
                 IF t \in RoomMembers(RoomId(sockets[s].userId, receiverId)) \ {s}
                   THEN <<Event("user_typing", "",
                                <<[userId |-> sockets[s].userId,
                                   userName |-> sockets[s].userName,
                                   isTyping |-> isTyping]>>)>>
                   ELSE <<>>]
  /\ UNCHANGED <<sockets, onlineUsers, oldRows, rows, now, auths, joins, sends, budget>>
  /\ UNCHANGED <<server, friends, adds, replies>>
  /\ UNCHANGED client

\* ---------------------------------------------------- events without payload
\* shutdown(): server.close() stops accepting connections; its callback, which
\* closes the store and exits, waits for the open connections to end
Shutdown == IF server = "listening" THEN "closing" ELSE server

\* join_conversation emitted without an argument: the parameter pattern
\* { userId, friendId } throws ahead of the try block, the async handler's
\* promise rejects, and process.on('unhandledRejection') calls shutdown()
JoinConversationNoPayload(s) ==
  /\ Idle
  /\ sockets[s].state = "open"
  /\ budget > 0
  /\ budget' = budget - 1
  /\ server' = Shutdown
  /\ emitted' = NoEvents
  /\ UNCHANGED <<sockets, onlineUsers, oldRows, rows, now, auths, joins, sends>>
  /\ UNCHANGED <<friends, adds, replies>>
  /\ UNCHANGED client

\* typing emitted without an argument: the parameter pattern
\* { receiverId, isTyping } throws ahead of the try block, out of the listener,
\* and process.on('uncaughtException') calls shutdown()
TypingNoPayload(s) ==
  /\ Idle
  /\ sockets[s].state = "open"
  /\ budget > 0
  /\ budget' = budget - 1
  /\ server' = Shutdown
  /\ emitted' = NoEvents
  /\ UNCHANGED <<sockets, onlineUsers, oldRows, rows, now, auths, joins, sends>>
  /\ UNCHANGED <<friends, adds, replies>>
  /\ UNCHANGED client

\* send_message emitted without an argument: the destructuring is inside the
\* try block and the catch block emits an error
SendMessageNoPayload(s) ==
  /\ Idle
  /\ sockets[s].state = "open"
  /\ emitted' = IF NotAuthenticated(s)
                  THEN EmitTo(s, Event("error", "NotAuthenticated", <<>>))
                  ELSE EmitTo(s, Event("error", "SendFailed", <<>>))
  /\ UNCHANGED <<sockets, onlineUsers, oldRows, rows, now, auths, joins, sends, budget>>
  /\ UNCHANGED <<server, friends, adds, replies>>
  /\ UNCHANGED client

\* the callback of server.close(): every connection has ended, the store is
\* closed and process.exit(0) runs
Exit ==
  /\ Idle
  /\ server = "closing"
  /\ Connected = {}
  /\ server' = "exited"
  /\ UNCHANGED <<sockets, onlineUsers, oldRows, rows, now, auths, joins, sends, budget>>
  /\ UNCHANGED <<emitted, friends, adds, replies>>
  /\ UNCHANGED client

\* a second passes on the store clock
Tick ==
  /\ Idle
  /\ now < MaxClock
  /\ \E i \in DOMAIN sends : sends[i].at \in {"queued", "written"}
  /\ now' = now + 1
  /\ emitted' = NoEvents
  /\ UNCHANGED <<sockets, onlineUsers, oldRows, rows, auths, joins, sends, budget>>
  /\ UNCHANGED <<server, friends, adds, replies>>
  /\ UNCHANGED client

\* the transport takes the events of the latest step off the sockets
Flush ==
  /\ emitted # NoEvents \/ replies # <<>>
  /\ emitted' = NoEvents
  /\ replies' = <<>>
  /\ UNCHANGED <<sockets, onlineUsers, oldRows, rows, now, auths, joins, sends, budget>>
  /\ UNCHANGED <<server, friends, adds>>
  /\ UNCHANGED client

\* ------------------------------------------------------------- specification
\* one event, callback or clock tick at a time (Node's single-threaded loop)
Next ==
  \/ \E s \in Sockets, b \in BOOLEAN : Connect(s, b)
  \/ \E s \in Sockets, token \in Tokens : Authenticate(s, token)
  \/ \E h \in BagToSet(auths) : AuthLookup(h)
  \/ \E h \in BagToSet(auths) : AuthLookupFail(h)
  \/ \E s \in Sockets : Disconnect(s)
  \/ \E s \in Sockets, p \in Pairs : JoinConversation(s, p[1], p[2])
  \/ \E j \in BagToSet(joins) : DbAll(j)
  \/ \E j \in BagToSet(joins) : DbAllFail(j)
  \/ \E j \in BagToSet(joins) : JoinCallback(j)
  \/ \E s \in Sockets, p \in Pairs, c \in Contents : SendMessage(s, p[1], p[2], c)
  \/ \E i \in DOMAIN sends : DbRun(i)
  \/ \E i \in DOMAIN sends : DbRunFail(i)
  \/ \E i \in DOMAIN sends : SendCallback(i)
  \/ \E s \in Sockets, u \in Ids, b \in BOOLEAN : Typing(s, u, b)
  \/ \E s \in Sockets : JoinConversationNoPayload(s)
  \/ \E s \in Sockets : TypingNoPayload(s)
  \/ \E s \in Sockets : SendMessageNoPayload(s)
  \/ Exit
  \/ Tick
  \/ Flush

Spec == Init /\ [][Next]_vars

\* the steps the server takes by itself: a lookup, a store call or a callback
\* that is due, and the transport writing out the emitted events
Completion ==
  \/ \E h \in BagToSet(auths) : AuthLookup(h) \/ AuthLookupFail(h)
  \/ \E j \in BagToSet(joins) : DbAll(j) \/ DbAllFail(j) \/ JoinCallback(j)
  \/ \E i \in DOMAIN sends : DbRun(i) \/ DbRunFail(i) \/ SendCallback(i)
  \/ Flush

\* the server never stops while it has something to do; clients owe nothing
SpecLive == Init /\ [][Next]_vars /\ WF_vars(Completion)

\* ------------------------------------------------- the conversation scenario
\* Three connections after authentication: user 1 on s1 and on s2, user 2 on
\* s3; s1 and s3 have joined the conversation of users 1 and 2 and got their
\* history, s2 has joined nothing yet
InitChat ==
  /\ sockets = [s \in Sockets |->
       LET u == IF s = "s3" THEN 2 ELSE 1
       IN [state |-> "open", userId |-> u, userName |-> UserName(u),
           rooms |-> IF s = "s2" THEN {} ELSE {RoomId(1, 2)}]]
  /\ onlineUsers = <<OnlineEntry("s1", 1), OnlineEntry("s2", 1), OnlineEntry("s3", 2)>>
  /\ oldRows \in {0, HistoryLimit}
  /\ rows = <<>>
  /\ now = 0
  /\ auths = EmptyBag
  /\ joins = EmptyBag
  /\ sends = <<>>
  /\ budget = ChatRequests
  /\ emitted = NoEvents
  /\ server = "listening"
  /\ friends = <<>>
  /\ adds = EmptyBag
  /\ replies = <<>>
  /\ client = NoClient

NextChat ==
  \/ \E s \in Sockets, p \in Pairs : JoinConversation(s, p[1], p[2])
  \/ \E j \in BagToSet(joins) : DbAll(j)
  \/ \E j \in BagToSet(joins) : DbAllFail(j)
  \/ \E j \in BagToSet(joins) : JoinCallback(j)
  \/ \E s \in Sockets, p \in Pairs, c \in Contents : SendMessage(s, p[1], p[2], c)
  \/ \E i \in DOMAIN sends : DbRun(i)
  \/ \E i \in DOMAIN sends : DbRunFail(i)
  \/ \E i \in DOMAIN sends : SendCallback(i)
  \/ Tick
  \/ Flush


SpecChat == InitChat /\ [][NextChat]_vars

\* the same connections joining conversations and typing
NextTyping ==
  \/ \E s \in Sockets, p \in Pairs : JoinConversation(s, p[1], p[2])
  \/ \E j \in BagToSet(joins) : DbAll(j)
  \/ \E j \in BagToSet(joins) : DbAllFail(j)
  \/ \E j \in BagToSet(joins) : JoinCallback(j)
  \/ \E s \in Sockets, u \in Ids, b \in BOOLEAN : Typing(s, u, b)
  \/ Flush

SpecTyping == InitChat /\ [][NextTyping]_vars

\* ----------------------------------------------- the offline-receiver scenario
\* User 1, authenticated on s1, has sent one message to user 2 while user 2
\* had no connection; the INSERT succeeded and its callback has run.  The
\* other two clients have not connected yet
InitOffline ==
  /\ sockets = [s \in Sockets |->
       IF s = "s1"
         THEN [state |-> "open", userId |-> 1, userName |-> UserName(1), rooms |-> {}]
         ELSE [state |-> "new", userId |-> 0, userName |-> "", rooms |-> {}]]
  /\ onlineUsers = <<OnlineEntry("s1", 1)>>
  /\ oldRows \in {0, HistoryLimit}
  /\ rows = <<[id |-> oldRows + 1, sender_id |-> 1, receiver_id |-> 2,
               content |-> <<"h">>, timestamp |-> 0]>>
  /\ now = 0
  /\ auths = EmptyBag
  /\ joins = EmptyBag
  /\ sends = <<>>
  /\ budget = OfflineRequests
  /\ emitted = NoEvents
  /\ server = "listening"
  /\ friends = <<>>
  /\ adds = EmptyBag
  /\ replies = <<>>
  /\ client = NoClient

SpecOffline == InitOffline /\ [][Next]_vars

\* ------------------------------------------------- the Chat component
\* The browser of user 1 (src/unnamed/part_001): its socket is s1 and, after a
\* reconnection, s2; user 2 is its friend, connected on s3
ClientUser == 1

ClientSocket == IF sockets["s2"].state = "new" THEN "s1" ELSE "s2"

\* the React state connected: true from 'connect', false from 'disconnect' and
\* from 'auth_error'
ClientConnected ==
  sockets[ClientSocket].state = "open" /\ client.authErrorOn # ClientSocket

\* the filter of ChatWindow: m is of the conversation with the selected friend
OfOpenConversation(c, m) ==
  \/ m.senderId = ClientUser /\ m.receiverId = c.selectedFriend
  \/ m.senderId = c.selectedFriend /\ m.receiverId = ClientUser

\* the new_message listener without its test for a present id
OnNewMessageAppends(prev, message) == Append(prev, message)

\* socket.on('new_message'): setMessages(prev => exists ? prev : [...prev, message])
OnNewMessage(prev, message) ==
  IF \E k \in DOMAIN prev : prev[k].id = message.id
    THEN prev
    ELSE Append(prev, message)

\* socket.on('message_history'): setMessages(history || [])
OnMessageHistory(prev, history) == history

\* the listeners of the client for one event
Receive(c, e) ==
  IF e.ev = "new_message"
    THEN [c EXCEPT !.messages = OnNewMessage(@, e.body[1]),
                   !.received = IF OfOpenConversation(c, e.body[1])
                                  THEN @ \cup {e.body[1].id} ELSE @]
  ELSE IF e.ev = "message_history"
    THEN [c EXCEPT !.messages = OnMessageHistory(@, e.body),
                   !.received = @ \cup {e.body[k].id : k \in
                                   {i \in DOMAIN e.body : OfOpenConversation(c, e.body[i])}}]
  ELSE IF e.ev = "auth_error"
    THEN [c EXCEPT !.authErrorOn = ClientSocket]
  ELSE c

RECURSIVE ReceiveAll(_, _)
ReceiveAll(c, es) ==
  IF es = <<>> THEN c ELSE ReceiveAll(Receive(c, Head(es)), Tail(es))

\* the transport takes the events of the latest step off the sockets, and the
\* listeners of the client run for those of its connection
ClientDeliver ==
  /\ emitted # NoEvents
  /\ client' = IF sockets[ClientSocket].state = "open"
                 THEN ReceiveAll(client, emitted[ClientSocket])
                 ELSE client
  /\ emitted' = NoEvents
  /\ UNCHANGED <<sockets, onlineUsers, oldRows, rows, now, auths, joins, sends, budget>>
  /\ UNCHANGED <<server, friends, adds, replies>>

\* handleFriendSelect(friend): the state is reset and, with a connected socket,
\* join_conversation { userId: user.id, friendId: friend.id } is emitted, which
\* the server handles
HandleFriendSelect(friendId) ==
  /\ client' = [client EXCEPT !.selectedFriend = friendId,
                              !.messages = <<>>, !.received = {}]
  /\ IF ClientConnected
       THEN JoinHandler(ClientSocket, ClientUser, friendId)
       ELSE /\ Idle
            /\ UNCHANGED <<sockets, onlineUsers, oldRows, rows, now, auths, joins,
                           sends, budget, emitted, server, friends, adds, replies>>

\* the client's connection is lost (the server's disconnect handler runs)
ClientDisconnect == Disconnect("s1")

\* socket.io-client reconnects (reconnection: true): a new connection with the
\* token in its handshake
ClientReconnect == sockets["s1"].state = "closed" /\ Connect("s2", TRUE)

\* newSocket.on('connect'): emit('authenticate', { token }), once per connection
ClientAuthenticate ==
  /\ ClientSocket = "s2"
  /\ sockets["s2"].userId = 0
  /\ client.authErrorOn # "s2"
  /\ \A h \in BagToSet(auths) : h.sock # "s2"
  /\ Authenticate("s2", [sig |-> "ok", id |-> ClientUser])

\* handleSendMessage of the friend's browser: user 2 writes to user 1
FriendSends == SendMessage("s3", 2, ClientUser, <<" ", "h">>)

\* user 1 authenticated on s1, no friend selected yet; user 2 on s3, in the
\* room of the two
InitClient ==
  /\ sockets = [s \in Sockets |->
       IF s = "s1"
         THEN [state |-> "open", userId |-> 1, userName |-> UserName(1), rooms |-> {}]
       ELSE IF s = "s3"
         THEN [state |-> "open", userId |-> 2, userName |-> UserName(2),
               rooms |-> {RoomId(1, 2)}]
       ELSE [state |-> "new", userId |-> 0, userName |-> "", rooms |-> {}]]
  /\ onlineUsers = <<OnlineEntry("s1", 1), OnlineEntry("s3", 2)>>
  /\ oldRows = 0
  /\ rows = <<>>
  /\ now = 0
  /\ auths = EmptyBag
  /\ joins = EmptyBag
  /\ sends = <<>>
  /\ budget = ClientRequests
  /\ emitted = NoEvents
  /\ server = "listening"
  /\ friends = <<>>
  /\ adds = EmptyBag
  /\ replies = <<>>
  /\ client = NoClient

NextClient ==
  \/ HandleFriendSelect(2)
  \/ ClientDisconnect
  \/ ClientReconnect
  \/ ClientAuthenticate
  \/ \E h \in BagToSet(auths) : AuthLookup(h)
  \/ \E h \in BagToSet(auths) : AuthLookupFail(h)
  \/ \E j \in BagToSet(joins) : DbAll(j)
  \/ \E j \in BagToSet(joins) : DbAllFail(j)
  \/ \E j \in BagToSet(joins) : JoinCallback(j)
  \/ FriendSends
  \/ \E i \in DOMAIN sends : DbRun(i)
  \/ \E i \in DOMAIN sends : DbRunFail(i)
  \/ \E i \in DOMAIN sends : SendCallback(i)
  \/ ClientDeliver

SpecClient == InitClient /\ [][NextClient]_vars

\* what the server and the client do by themselves: lookups, store calls and
\* callbacks that are due, the delivery of events, the reconnection and the
\* authenticate that follows it
ClientCompletion ==
  \/ \E h \in BagToSet(auths) : AuthLookup(h) \/ AuthLookupFail(h)
  \/ \E j \in BagToSet(joins) : DbAll(j) \/ DbAllFail(j) \/ JoinCallback(j)
  \/ \E i \in DOMAIN sends : DbRun(i) \/ DbRunFail(i) \/ SendCallback(i)
  \/ ClientDeliver
  \/ ClientReconnect
  \/ ClientAuthenticate

SpecClientLive == InitClient /\ [][NextClient]_vars /\ WF_vars(ClientCompletion)

\* ------------------------------------------------ POST /api/friends/add
\* phone numbers as character sequences; the users table gives user u the
\* phone PhoneOf(u), ten digits as register accepts them (phone is UNIQUE)
PhoneOf(u) == [i \in 1..10 |-> IF i = 1 THEN "1" ELSE IF i = 10 THEN Digit(u) ELSE "0"]

\* a JSON string of the request body
Str(text) == [type |-> "string", text |-> text]

\* a JSON number of the request body, with the digits its toString() gives
Num(text) == [type |-> "number", text |-> text]

\* the phone of a request body (express.json): a string that is empty,
\* malformed, the phone of a user or of nobody, or a number
Phones ==
  {Str(<<>>), Str(<<"0", "9", "x">>)}
    \cup {Str(PhoneOf(u)) : u \in Ids}
    \cup {Num(PhoneOf(u)) : u \in UserIds}

\* if (!phone) return false; /^[0-9]{10,11}$/.test(phone.toString())
validatePhoneNumber(phone) ==
  /\ Len(phone.text) \in {10, 11}
  /\ \A i \in DOMAIN phone.text : \E d \in 0..9 : phone.text[i] = Digit(d)

\* phone === req.user.phone: the stored phone is a string, and === holds for
\* no value of another type
IsOwnPhone(u, phone) == phone.type = "string" /\ phone.text = PhoneOf(u)

\* SELECT * FROM users WHERE phone = ? (0: no row); the TEXT column compares
\* an integer parameter by its text
findUserByPhone(phone) ==
  IF \E u \in UserIds : PhoneOf(u) = phone.text
    THEN CHOOSE u \in UserIds : PhoneOf(u) = phone.text
    ELSE 0

\* the check query matching the pair in one column order only
ExistingOneWay(a, b) ==
  \E i \in DOMAIN friends : friends[i].user1_id = a /\ friends[i].user2_id = b

\* checkQuery: WHERE (user1_id = a AND user2_id = b) OR (user1_id = b AND user2_id = a)
Existing(a, b) ==
  \E i \in DOMAIN friends :
    \/ friends[i].user1_id = a /\ friends[i].user2_id = b
    \/ friends[i].user1_id = b /\ friends[i].user2_id = a

\* the row in the order of the request
FriendRowAsGiven(a, b) == [id |-> Len(friends) + 1, user1_id |-> a, user2_id |-> b]

\* the inserted row: user1_id = Math.min, user2_id = Math.max, AUTOINCREMENT id
FriendRow(a, b) ==
  [id |-> Len(friends) + 1,
   user1_id |-> IF a < b THEN a ELSE b,
   user2_id |-> IF a < b THEN b ELSE a]

\* UNIQUE(user1_id, user2_id)
UniqueViolated(row) ==
  \E i \in DOMAIN friends :
    friends[i].user1_id = row.user1_id /\ friends[i].user2_id = row.user2_id

\* res.status(..).json({ code }) / res.json({ success: true }) to the request of u
Reply(u, code) == <<[user |-> u, code |-> code]>>

\* the route up to its await, for the authenticated user u (req.user)
AddFriend(u, phone) ==
  /\ Idle
  /\ budget > 0
  /\ budget' = budget - 1
  /\ IF phone = Str(<<>>)
       THEN replies' = Reply(u, "MISSING_PHONE") /\ adds' = adds
       ELSE IF ~validatePhoneNumber(phone)
         THEN replies' = Reply(u, "INVALID_PHONE") /\ adds' = adds
         ELSE IF IsOwnPhone(u, phone)
           THEN replies' = Reply(u, "SELF_FRIEND") /\ adds' = adds
           ELSE /\ replies' = <<>>
                /\ adds' = adds (+) SetToBag({[user |-> u, phone |-> phone,
                                                friend |-> 0, at |-> "lookup"]})
  /\ UNCHANGED <<sockets, onlineUsers, oldRows, rows, now, auths, joins, sends>>
  /\ UNCHANGED <<emitted, server, friends>>
  /\ UNCHANGED client

\* findUserByPhone resolves: USER_NOT_FOUND, or the check query is issued
FriendLookup(r) ==
  /\ Idle
  /\ r.at = "lookup"
  /\ LET f == findUserByPhone(r.phone)
     IN IF f = 0
          THEN /\ replies' = Reply(r.user, "USER_NOT_FOUND")
               /\ adds' = adds (-) SetToBag({r})
          ELSE /\ replies' = <<>>
               /\ adds' = (adds (-) SetToBag({r}))
                            (+) SetToBag({[r EXCEPT !.friend = f, !.at = "check"]})
  /\ UNCHANGED <<sockets, onlineUsers, oldRows, rows, now, auths, joins, sends, budget>>
  /\ UNCHANGED <<emitted, server, friends>>
  /\ UNCHANGED client

\* findUserByPhone rejects: the catch block answers SERVER_ERROR
FriendLookupFail(r) ==
  /\ Idle
  /\ r.at = "lookup"
  /\ replies' = Reply(r.user, "SERVER_ERROR")
  /\ adds' = adds (-) SetToBag({r})
  /\ UNCHANGED <<sockets, onlineUsers, oldRows, rows, now, auths, joins, sends, budget>>
  /\ UNCHANGED <<emitted, server, friends>>
  /\ UNCHANGED client

\* the callback of the check query without err: ALREADY_FRIENDS, or the
\* INSERT is issued
FriendCheck(r) ==
  /\ Idle
  /\ r.at = "check"
  /\ IF Existing(r.user, r.friend)
       THEN /\ replies' = Reply(r.user, "ALREADY_FRIENDS")
            /\ adds' = adds (-) SetToBag({r})
       ELSE /\ replies' = <<>>
            /\ adds' = (adds (-) SetToBag({r})) (+) SetToBag({[r EXCEPT !.at = "insert"]})
  /\ UNCHANGED <<sockets, onlineUsers, oldRows, rows, now, auths, joins, sends, budget>>
  /\ UNCHANGED <<emitted, server, friends>>
  /\ UNCHANGED client

\* the callback of the check query with err
FriendCheckFail(r) ==
  /\ Idle
  /\ r.at = "check"
  /\ replies' = Reply(r.user, "DB_ERROR")
  /\ adds' = adds (-) SetToBag({r})
  /\ UNCHANGED <<sockets, onlineUsers, oldRows, rows, now, auths, joins, sends, budget>>
  /\ UNCHANGED <<emitted, server, friends>>
  /\ UNCHANGED client

\* the INSERT runs and its callback answers: a row that violates the UNIQUE
\* constraint is refused by the store (err), any other row is stored
FriendInsert(r) ==
  /\ Idle
  /\ r.at = "insert"
  /\ adds' = adds (-) SetToBag({r})
  /\ LET row == FriendRow(r.user, r.friend)
     IN IF UniqueViolated(row)
          THEN replies' = Reply(r.user, "DB_ERROR") /\ friends' = friends
          ELSE replies' = Reply(r.user, "success") /\ friends' = Append(friends, row)
  /\ UNCHANGED <<sockets, onlineUsers, oldRows, rows, now, auths, joins, sends, budget>>
  /\ UNCHANGED <<emitted, server>>
  /\ UNCHANGED client

\* the INSERT fails in the store for another reason
FriendInsertFail(r) ==
  /\ Idle
  /\ r.at = "insert"
  /\ adds' = adds (-) SetToBag({r})
  /\ replies' = Reply(r.user, "DB_ERROR")
  /\ UNCHANGED <<sockets, onlineUsers, oldRows, rows, now, auths, joins, sends, budget>>
  /\ UNCHANGED <<emitted, server, friends>>
  /\ UNCHANGED client

\* the HTTP route alone, from the server's start with an empty friends table
InitFriends ==
  /\ sockets = [s \in Sockets |-> [state |-> "new", userId |-> 0, userName |-> "", rooms |-> {}]]
  /\ onlineUsers = <<>>
  /\ oldRows = 0
  /\ rows = <<>>
  /\ now = 0
  /\ auths = EmptyBag
  /\ joins = EmptyBag
  /\ sends = <<>>
  /\ budget = FriendRequests
  /\ emitted = NoEvents
  /\ server = "listening"
  /\ friends = <<>>
  /\ adds = EmptyBag
  /\ replies = <<>>
  /\ client = NoClient

NextFriends ==
  \/ \E u \in UserIds, phone \in Phones : AddFriend(u, phone)
  \/ \E r \in BagToSet(adds) : FriendLookup(r)
  \/ \E r \in BagToSet(adds) : FriendLookupFail(r)
  \/ \E r \in BagToSet(adds) : FriendCheck(r)
  \/ \E r \in BagToSet(adds) : FriendCheckFail(r)
  \/ \E r \in BagToSet(adds) : FriendInsert(r)
  \/ \E r \in BagToSet(adds) : FriendInsertFail(r)
  \/ Flush

SpecFriends == InitFriends /\ [][NextFriends]_vars

\* --------------------------------------------------------- the room-id scenario
\* One authenticated connection joins conversations and types, with user ids
\* of one and of two digits in the payloads
InitRoom ==
  /\ sockets = [s \in Sockets |->
       IF s = "s1"
         THEN [state |-> "open", userId |-> 1, userName |-> UserName(1), rooms |-> {}]
         ELSE [state |-> "new", userId |-> 0, userName |-> "", rooms |-> {}]]
  /\ onlineUsers = <<OnlineEntry("s1", 1)>>
  /\ oldRows = 0
  /\ rows = <<>>
  /\ now = 0
  /\ auths = EmptyBag
  /\ joins = EmptyBag
  /\ sends = <<>>
  /\ budget = RoomRequests
  /\ emitted = NoEvents
  /\ server = "listening"
  /\ friends = <<>>
  /\ adds = EmptyBag
  /\ replies = <<>>
  /\ client = NoClient

NextRoom ==
  \/ \E s \in Sockets, a \in 1..MaxUserId, b \in 1..MaxUserId : JoinConversation(s, a, b)
  \/ \E j \in BagToSet(joins) : DbAll(j)
  \/ \E j \in BagToSet(joins) : DbAllFail(j)
  \/ \E j \in BagToSet(joins) : JoinCallback(j)
  \/ \E s \in Sockets, u \in 1..MaxUserId, b \in BOOLEAN : Typing(s, u, b)
  \/ Flush

SpecRoom == InitRoom /\ [][NextRoom]_vars

\* the room-id scenario with the server's fairness
SpecRoomLive == InitRoom /\ [][NextRoom]_vars /\ WF_vars(Completion)

\* ------------------------------------------------------------------- claims
\* the new_message events for message id among the events es
NewMessagesOf(es, id) ==
  {i \in DOMAIN es : es[i].ev = "new_message" /\ es[i].body[1].id = id}

\* the step is the db.run callback of the i-th pending write
CallbackOf(i) == i \in DOMAIN sends /\ sends' = Remove(sends, i)

ErrorEvent(text) == Event("error", text, <<>>)

\* C1: every connection in a conversation room is bound to one of the two
\* participants of that room
C1_RoomMembersAreParticipants ==
  \A s \in Sockets, a \in Ids, b \in Ids :
    RoomId(a, b) \in sockets[s].rooms => sockets[s].userId \in {a, b}

\* C2: whenever new_message is emitted for a message, every history read of its
\* pair returns that message
C2_DeliveredIsInHistory ==
  \A s \in Sockets : \A i \in DOMAIN emitted[s] :
    emitted[s][i].ev = "new_message" =>
      LET m == emitted[s][i].body[1]
      IN \A q \in HistoryResults(m.senderId, m.receiverId) :
           \E k \in DOMAIN q : q[k].id = m.id

\* C3: a write that fails leaves the messages table as it was, its callback
\* emits one error to the sender and nothing else, and every new_message ever
\* emitted is for a row of the table
C3_FailedSendRejected ==
  [][/\ \A i \in DOMAIN sends :
          /\ sends[i].at = "queued"
               /\ sends' = [sends EXCEPT ![i].at = "failed"]
               => rows' = rows
          /\ sends[i].at = "failed" /\ CallbackOf(i)
               => /\ emitted' = EmitTo(sends[i].sock, ErrorEvent("SaveFailed"))
                  /\ rows' = rows
     /\ \A s \in Sockets : \A i \in DOMAIN emitted'[s] :
          emitted'[s][i].ev = "new_message" =>
            \E k \in DOMAIN rows' : rows'[k].id = emitted'[s][i].body[1].id
    ]_vars

\* C3 witness: the sender s1 got the error of a failed write while s3 sits in
\* the room of the pair and got nothing
C3_Witness ==
  /\ emitted["s1"] = <<ErrorEvent("SaveFailed")>>
  /\ "s3" \in RoomMembers(RoomId(1, 2))
  /\ emitted["s3"] = <<>>

\* C4: when a write has succeeded, its callback emits new_message exactly once
\* to every live connection of the sending user
C4_EveryConnectionOfSenderReceives ==
  [][\A i \in DOMAIN sends :
       sends[i].at = "written" /\ CallbackOf(i) =>
         \A d \in Sockets :
           sockets[d].state = "open" /\ sockets[d].userId = sends[i].senderId =>
             Cardinality(NewMessagesOf(emitted'[d], sends[i].lastID)) = 1
    ]_vars

\* C5: when a write has succeeded, its callback emits new_message exactly once
\* to every connection in the room of (sender, receiver), the sender's
\* connections included, and to no other connection
C5_DeliveredOnceToRoomMembers ==
  [][\A i \in DOMAIN sends :
       sends[i].at = "written" /\ CallbackOf(i) =>
         \A d \in Sockets :
           Cardinality(NewMessagesOf(emitted'[d], sends[i].lastID)) =
             IF RoomId(sends[i].senderId, sends[i].receiverId) \in sockets[d].rooms
               THEN 1 ELSE 0
    ]_vars

\* C5 witness: a message of user 1 reached the sender's two joined connections
\* s1, s2 and the receiver's connection s3
C5_Witness ==
  \E id \in 1..(oldRows + Len(rows)) :
    /\ \A d \in Sockets : Cardinality(NewMessagesOf(emitted[d], id)) = 1
    /\ emitted["s1"][1].body[1].senderId = 1

\* C6: a closed connection has no entry in onlineUsers and is in no room
C6_ClosedConnectionIsGone ==
  \A s \in Sockets :
    sockets[s].state = "closed" =>
      ~MapHas(onlineUsers, s) /\ sockets[s].rooms = {}

\* C7: the users_online snapshot emitted when an authenticated connection
\* disconnects lists its user exactly when the user has another live connection
C7_SnapshotAfterDisconnect ==
  [][\A s \in Sockets :
       sockets[s].state = "open" /\ sockets'[s].state = "closed"
         /\ sockets[s].userId # 0 =>
         LET u == sockets[s].userId
             others == \E d \in Sockets \ {s} :
                         sockets[d].state = "open" /\ sockets[d].userId = u
         IN \A t \in Sockets \ {s} :
              sockets[t].state = "open" =>
                /\ Len(emitted'[t]) = 1
                /\ emitted'[t][1].ev = "users_online"
                /\ (\E k \in DOMAIN emitted'[t][1].body :
                      emitted'[t][1].body[k].userId = u) <=> others
    ]_vars

\* C8: send_message and join_conversation from a connection without a bound
\* user, with a payload or without one, emit one error to that connection and
\* change nothing else
C8_UnauthenticatedRejected ==
  [][\A s \in Sockets, p \in Pairs, c \in Contents :
       /\ sockets[s].userId = 0
       /\ \/ SendMessage(s, p[1], p[2], c)
          \/ JoinConversation(s, p[1], p[2])
          \/ SendMessageNoPayload(s)
          \/ JoinConversationNoPayload(s)
       => /\ emitted' = EmitTo(s, ErrorEvent("NotAuthenticated"))
          /\ UNCHANGED <<sockets, onlineUsers, rows, auths, joins, sends, server>>
    ]_vars

\* C9: send_message with empty or whitespace-only content from an authenticated
\* connection emits one error to the sender; nothing is queued or inserted and
\* no new_message is emitted
C9_EmptyContentRejected ==
  [][\A s \in Sockets, p \in Pairs, c \in Contents :
       /\ sockets[s].userId # 0
       /\ \A i \in DOMAIN c : c[i] = " "
       /\ SendMessage(s, p[1], p[2], c)
       => /\ emitted' = EmitTo(s, ErrorEvent("EmptyContent"))
          /\ UNCHANGED <<rows, sends>>
    ]_vars

\* C9 witness: an authenticated connection holds the empty-content error
C9_Witness ==
  \E s \in Sockets :
    /\ sockets[s].userId # 0
    /\ emitted = EmitTo(s, ErrorEvent("EmptyContent"))

\* C10: send_message whose senderId is not the bound user of the connection
\* emits one error to the sender (the Forbidden one when the connection is
\* authenticated and the content is not empty); nothing is queued or inserted
\* and no new_message is emitted
C10_SpoofedSenderRejected ==
  [][\A s \in Sockets, p \in Pairs, c \in Contents :
       /\ p[1] # sockets[s].userId
       /\ SendMessage(s, p[1], p[2], c)
       => /\ \E text \in {"NotAuthenticated", "EmptyContent", "Forbidden"} :
               emitted' = EmitTo(s, ErrorEvent(text))
          /\ sockets[s].userId # 0 /\ (\E i \in DOMAIN c : c[i] # " ")
               => emitted' = EmitTo(s, ErrorEvent("Forbidden"))
          /\ UNCHANGED <<rows, sends>>
    ]_vars

\* C10 witness: an authenticated connection holds the Forbidden error
C10_Witness ==
  \E s \in Sockets :
    /\ sockets[s].userId # 0
    /\ emitted = EmitTo(s, ErrorEvent("Forbidden"))

\* C11: a typing event for receiver u from a connection in the room of the pair emits
\* user_typing to no connection of the sender's own user in the room of the
\* pair, and to every connection of u in that room
C11_TypingSkipsOwnConnections ==
  [][\A s \in Sockets, u \in Ids, b \in BOOLEAN :
       /\ sockets[s].userId # 0
       /\ s \in RoomMembers(RoomId(sockets[s].userId, u))
       /\ Typing(s, u, b)
       => \A d \in RoomMembers(RoomId(sockets[s].userId, u)) :
           /\ sockets[d].userId = sockets[s].userId => emitted'[d] = <<>>
           /\ sockets[d].userId = u /\ d # s =>
                /\ Len(emitted'[d]) = 1
                /\ emitted'[d][1].ev = "user_typing"
    ]_vars

\* C12: an authenticate handler that completes on a connection with a bound
\* user emits auth_error to it and leaves its bound user and its onlineUsers
\* entry as they were
C12_SecondAuthenticateRejected ==
  [][\A h \in BagToSet(auths) :
       /\ sockets[h.sock].userId # 0
       /\ h.token.id \in UserIds
       /\ AuthLookup(h)
       => /\ sockets'[h.sock].userId = sockets[h.sock].userId
          /\ onlineUsers' = onlineUsers
          /\ Len(emitted'[h.sock]) = 1
          /\ emitted'[h.sock][1].ev = "auth_error"
    ]_vars

\* the step emits one auth_error to s and nothing else, and leaves every
\* connection's state and bound user and the onlineUsers map as they were
AuthErrorOnly(s) ==
  /\ \E text \in {"NoToken", "InvalidToken", "NoUser"} :
       emitted' = EmitTo(s, Event("auth_error", text, <<>>))
  /\ UNCHANGED <<sockets, onlineUsers>>

\* C13: an authenticate that fails (no token, a token that does not verify, a
\* token of no user, a failing lookup) emits auth_error to the connection and
\* nothing to any other, binds no user, adds no onlineUsers entry and leaves
\* the connection open
C13_FailedAuthenticateChangesNothing ==
  [][/\ \A s \in Sockets, token \in Tokens :
          token.sig \in {"none", "bad"} /\ Authenticate(s, token)
            => AuthErrorOnly(s)
     /\ \A h \in BagToSet(auths) :
          (h.token.id \notin UserIds /\ AuthLookup(h)) \/ AuthLookupFail(h)
            => AuthErrorOnly(h.sock)
    ]_vars

\* C13 witness: an open connection without a bound user and without an
\* onlineUsers entry holds the auth_error of an unknown user
C13_Witness ==
  \E s \in Sockets :
    /\ sockets[s].state = "open" /\ sockets[s].userId = 0
    /\ ~MapHas(onlineUsers, s)
    /\ emitted = EmitTo(s, Event("auth_error", "NoUser", <<>>))

\* C14: no connection stays open without a bound user forever
C14_UnauthenticatedIsDisconnected ==
  \A s \in Sockets :
    [](sockets[s].state = "open" /\ sockets[s].userId = 0
         => <>~(sockets[s].state = "open" /\ sockets[s].userId = 0))

\* the store answers the history read j with the rows q in this step
ReadOf(j, q) ==
  /\ BagIn(j, joins) /\ j.at = "queued"
  /\ joins' = (joins (-) SetToBag({j}))
                (+) SetToBag({[j EXCEPT !.at = "read", !.messages = q]})

\* q holds the HistoryLimit latest rows of S (all of S when it has no more),
\* in ascending order of timestamp
IsLatest(S, q) ==
  LET got == {q[k] : k \in DOMAIN q}
  IN /\ got \subseteq S
     /\ Len(q) = IF Cardinality(S) < HistoryLimit THEN Cardinality(S) ELSE HistoryLimit
     /\ Cardinality(got) = Len(q)
     /\ \A m \in S \ got : \A x \in got : m.timestamp <= x.timestamp
     /\ \A a \in DOMAIN q : \A b \in DOMAIN q : a < b => q[a].timestamp <= q[b].timestamp

\* C15: the rows a join_conversation reads are the 50 latest messages of the
\* pair in ascending order, and the message_history it emits carries them
C15_HistoryIsLatestFifty ==
  [][/\ \A k \in BagToSet(joins') :
          k.at = "read" /\ ~k.err =>
            \A j \in BagToSet(joins) :
              ReadOf(j, k.messages) =>
                IsLatest(Matching(j.userId, j.friendId), k.messages)
     /\ \A j \in BagToSet(joins) :
          j.at = "read" /\ ~j.err /\ joins' = joins (-) SetToBag({j}) =>
            emitted' = EmitTo(j.sock, Event("message_history", "",
                                             FormattedMessages(j.messages)))
    ]_vars

\* C16: the rows a join_conversation reads, which its message_history
\* carries, are in ascending order of (timestamp, id)
C16_HistorySortedByTimestampAndId ==
  [][\A k \in BagToSet(joins') :
       k.at = "read" /\ ~k.err =>
         \A j \in BagToSet(joins) :
           ReadOf(j, k.messages) =>
             \A a \in DOMAIN k.messages : \A b \in DOMAIN k.messages :
               a < b =>
                 \/ k.messages[a].timestamp < k.messages[b].timestamp
                 \/ /\ k.messages[a].timestamp = k.messages[b].timestamp
                    /\ k.messages[a].id < k.messages[b].id
    ]_vars

\* C17: a valid send_message to a user without an open connection is queued
\* without an error and the callback of its INSERT emits no error; and the
\* message_history that a connection user 2 opens afterwards gets for the pair
\* (1, 2) contains the message user 1 sent while user 2 had no connection
C17_OfflineMessageIsInLaterHistory ==
  [][/\ \A s \in Sockets, p \in Pairs, c \in Contents :
          /\ sockets[s].userId = p[1]
          /\ \E k \in DOMAIN c : c[k] # " "
          /\ \A d \in Sockets : ~(sockets[d].state = "open" /\ sockets[d].userId = p[2])
          /\ SendMessage(s, p[1], p[2], c)
          => emitted' = NoEvents /\ Len(sends') = Len(sends) + 1
     /\ \A i \in DOMAIN sends :
          sends[i].at = "written" /\ CallbackOf(i) =>
            \A d \in Sockets : \A k \in DOMAIN emitted'[d] :
              emitted'[d][k].ev # "error"
     /\ \A j \in BagToSet(joins) :
          /\ j.at = "read" /\ ~j.err
          /\ j.sock # "s1" /\ sockets[j.sock].userId = 2
          /\ {j.userId, j.friendId} = {1, 2}
          /\ joins' = joins (-) SetToBag({j})
          => /\ Len(emitted'[j.sock]) = 1
             /\ emitted'[j.sock][1].ev = "message_history"
             /\ \E k \in DOMAIN emitted'[j.sock][1].body :
                  emitted'[j.sock][1].body[k].id = oldRows + 1
    ]_vars

\* C18: when the callback of a write emits new_message to the connections of a
\* room, no message that the same connection submitted earlier to the same room
\* is stored with its own new_message still to come
C18_BroadcastInSubmissionOrder ==
  [][\A i \in DOMAIN sends :
       sends[i].at = "written" /\ CallbackOf(i) =>
         LET room == RoomId(sends[i].senderId, sends[i].receiverId)
         IN \A k \in 1..(i - 1) :
              ~ /\ sends[k].sock = sends[i].sock
                /\ RoomId(sends[k].senderId, sends[k].receiverId) = room
                /\ sends[k].at = "written"
                /\ \E d \in RoomMembers(room) :
                     NewMessagesOf(emitted'[d], sends[i].lastID) # {}
    ]_vars

\* C19: no users_online snapshot emitted to a connection lists a user id twice
C19_SnapshotHasOneEntryPerUser ==
  \A s \in Sockets : \A i \in DOMAIN emitted[s] :
    emitted[s][i].ev = "users_online" =>
      LET list == emitted[s][i].body
      IN \A a \in DOMAIN list : \A b \in DOMAIN list :
           list[a].userId = list[b].userId => a = b

\* the step emits users_online exactly once to every connection that is open
\* after it and to no other, carrying the onlineUsers values as the step leaves
\* them
SnapshotBroadcast ==
  \A t \in Sockets :
    LET got == {i \in DOMAIN emitted'[t] : emitted'[t][i].ev = "users_online"}
    IN IF sockets'[t].state = "open"
         THEN /\ Cardinality(got) = 1
              /\ \A i \in got : emitted'[t][i].body = OnlineList(onlineUsers')
         ELSE got = {}

\* C20: an authenticate that succeeds and a disconnect of a connection with a
\* bound user each emit one users_online to every open connection, and its
\* list is the content of onlineUsers after the handler's update
C20_SnapshotOnEveryPresenceChange ==
  [][/\ \A h \in BagToSet(auths) :
          h.token.id \in UserIds /\ AuthLookup(h) => SnapshotBroadcast
     /\ \A s \in Sockets :
          sockets[s].userId # 0 /\ Disconnect(s) => SnapshotBroadcast
    ]_vars

\* C20 witness: an authenticated connection has disconnected and an open
\* connection holds the users_online of that disconnect
C20_Witness ==
  /\ \E s \in Sockets : sockets[s].state = "closed"
  /\ \A s \in Sockets :
       sockets[s].state = "closed" => sockets[s].userId # 0 /\ ~MapHas(onlineUsers, s)
  /\ \E t \in Sockets :
       /\ sockets[t].state = "open"
       /\ emitted[t] = <<Event("users_online", "", OnlineList(onlineUsers))>>
  /\ \A d \in Sockets : \A i \in DOMAIN emitted[d] : emitted[d][i].ev = "users_online"

\* C21: the room a join_conversation with payload (a, b) puts the connection
\* in is the room id of (b, a) as well, and is the room id of no pair (a, c) or
\* (c, a) with c different from b
C21_RoomIdOfUnorderedPair ==
  \A j \in BagToSet(joins) :
    LET a == j.userId
        b == j.friendId
    IN /\ RoomId(a, b) \in sockets[j.sock].rooms
       /\ RoomId(a, b) = RoomId(b, a)
       /\ \A c \in 1..MaxUserId :
            c # b => RoomId(a, c) # RoomId(a, b) /\ RoomId(c, a) # RoomId(a, b)

\* C21 witness: a join with payload (12, 2) has put s1 in the room of (2, 12)
C21_Witness ==
  /\ \E j \in BagToSet(joins) : j.userId = 12 /\ j.friendId = 2
  /\ RoomId(2, 12) \in sockets["s1"].rooms

\* C22: no event of a connection, with or without a well-formed payload, ends
\* the server process
C22_FailureStaysInItsConnection == server # "exited"

\* C23: the friends table never holds two rows for the same unordered pair
C23_OneRowPerUnorderedPair ==
  \A i \in DOMAIN friends : \A k \in DOMAIN friends :
    i # k => {friends[i].user1_id, friends[i].user2_id}
               # {friends[k].user1_id, friends[k].user2_id}

\* C23 witness: requests of user 1 for user 2 and of user 2 for user 1 both
\* passed the existence check; the row of one is stored, the INSERT of the
\* other is still to run
C23_Witness ==
  /\ Len(friends) = 1
  /\ \E r \in BagToSet(adds) :
       /\ r.at = "insert"
       /\ friends[1].user1_id = r.friend
       /\ friends[1].user2_id = r.user

\* the requests in flight whose pair already has a row
ForExistingPair(r) ==
  \E i \in DOMAIN friends : {friends[i].user1_id, friends[i].user2_id} = {r.user, r.friend}

\* C24: the existence check of a request for a pair that already has a row,
\* asked by either user of the pair, answers ALREADY_FRIENDS, and no step of
\* such a request inserts a row or answers success
C24_ExistingPairIsAlreadyFriends ==
  [][\A r \in BagToSet(adds) :
       ForExistingPair(r) =>
         /\ FriendCheck(r) => replies' = Reply(r.user, "ALREADY_FRIENDS")
         /\ (FriendCheck(r) \/ FriendCheckFail(r) \/ FriendInsert(r) \/ FriendInsertFail(r))
              => friends' = friends /\ replies' # Reply(r.user, "success")
    ]_vars

\* C24 witness: the pair is stored as (1, 2) and the request of user 2 for
\* user 1 was answered ALREADY_FRIENDS
C24_Witness ==
  /\ Len(friends) = 1
  /\ friends[1].user1_id = 1
  /\ replies = Reply(2, "ALREADY_FRIENDS")

\* C25: a connection with a bound user keeps a bound user, and no step changes
\* the state, bound user, rooms or onlineUsers entry of a closed connection
C25_SessionOnlyMovesForward ==
  [][\A s \in Sockets :
       /\ sockets[s].userId # 0 => sockets'[s].userId # 0
       /\ sockets[s].state = "closed" =>
            /\ sockets'[s] = sockets[s]
            /\ MapHas(onlineUsers', s) <=> MapHas(onlineUsers, s)
    ]_vars

\* C26: a typing event of a connection without a bound user, with a payload or
\* without one, emits nothing and changes no state
C26_UnboundTypingIgnored ==
  [][\A s \in Sockets :
       /\ sockets[s].userId = 0
       /\ TypingNoPayload(s) \/ \E u \in Ids, b \in BOOLEAN : Typing(s, u, b)
       => /\ emitted' = NoEvents
          /\ UNCHANGED <<sockets, onlineUsers, rows, auths, joins, sends, server>>
    ]_vars

\* content is empty or whitespace only
Blank(c) == \A i \in DOMAIN c : c[i] = " "

\* the step emits one event, to s, and it is the error with this text
OneError(s, text) ==
  /\ emitted'[s] = <<ErrorEvent(text)>>
  /\ \A d \in Sockets \ {s} : emitted'[d] = <<>>

\* C27: a send_message of a connection without a bound user gets the
\* not-authenticated error whatever its payload; of an authenticated connection
\* with blank content the empty-content error, whether or not its senderId is
\* the bound user; with content and another senderId the forbidden error; a
\* rejected send_message emits exactly one error and queues nothing
C27_RejectionOrder ==
  [][\A s \in Sockets :
       /\ \A p \in Pairs, c \in Contents :
            SendMessage(s, p[1], p[2], c) =>
              /\ sockets[s].userId = 0 => OneError(s, "NotAuthenticated")
              /\ sockets[s].userId # 0 /\ Blank(c) => OneError(s, "EmptyContent")
              /\ sockets[s].userId # 0 /\ ~Blank(c) /\ p[1] # sockets[s].userId
                   => OneError(s, "Forbidden")
              /\ sockets[s].userId = 0 \/ Blank(c) \/ p[1] # sockets[s].userId
                   => UNCHANGED <<rows, sends>>
       /\ SendMessageNoPayload(s) =>
            /\ \E text \in {"NotAuthenticated", "SendFailed"} : OneError(s, text)
            /\ UNCHANGED <<rows, sends>>
    ]_vars

\* C27 witness: a connection bound to user 1, whose send_message payloads name
\* user 1 or user 2 as sender, holds one empty-content error and nothing is
\* queued
C27_Witness ==
  \E s \in Sockets :
    /\ sockets[s].state = "open" /\ sockets[s].userId = 1
    /\ emitted[s] = <<ErrorEvent("EmptyContent")>>
    /\ \A d \in Sockets \ {s} : emitted[d] = <<>>
    /\ sends = <<>>

\* an authenticate of s with a token that verifies to a row of users is
\* suspended at its lookup
ValidAuthPending(s) ==
  \E h \in BagToSet(auths) : h.sock = s /\ h.token.sig = "ok" /\ h.token.id \in UserIds

\* C28: while an authenticate of a connection with a valid token is suspended,
\* no join_conversation, send_message or typing event of that connection is
\* handled as one of a connection without a bound user
C28_HandlersDoNotInterleave ==
  [][\A s \in Sockets, p \in Pairs, c \in Contents :
       /\ ValidAuthPending(s)
       /\ sockets[s].userId = 0
       /\ SendMessage(s, p[1], p[2], c) \/ JoinConversation(s, p[1], p[2])
       => emitted'[s] # <<ErrorEvent("NotAuthenticated")>>
    ]_vars

\* C30: a join_conversation of a connection that the store still has to answer
\* leads to a message_history or an error emitted to that connection
C30_JoinIsAnswered ==
  \A s \in Sockets :
    (\E j \in BagToSet(joins) : j.sock = s)
      ~> (\E i \in DOMAIN emitted[s] : emitted[s][i].ev \in {"message_history", "error"})

\* C31: every row of the friends table has user1_id < user2_id
C31_RowsAreOrderedPairs ==
  \A i \in DOMAIN friends : friends[i].user1_id < friends[i].user2_id

\* C32: every message of a message_history emitted to a connection has the
\* bound user of that connection as its sender or its receiver
C32_HistoryOfOwnConversations ==
  \A s \in Sockets : \A i \in DOMAIN emitted[s] :
    emitted[s][i].ev = "message_history" =>
      \A k \in DOMAIN emitted[s][i].body :
        sockets[s].userId \in {emitted[s][i].body[k].senderId,
                               emitted[s][i].body[k].receiverId}

\* C33: a send_message that is accepted carries the bound user of its
\* connection as senderId; the row its INSERT writes has that senderId as
\* sender_id and a content that is not empty and is its own trimmed form
C33_InsertedRowIsOfSender ==
  [][/\ \A s \in Sockets, p \in Pairs, c \in Contents :
          SendMessage(s, p[1], p[2], c) /\ sends' # sends =>
            /\ p[1] = sockets[s].userId
            /\ sends' = Append(sends,
                 [sock |-> s, senderId |-> p[1], receiverId |-> p[2],
                  content |-> c, at |-> "queued", lastID |-> 0])
     /\ rows' # rows =>
          \E i \in DOMAIN sends :
            /\ sends[i].at = "queued"
            /\ Len(rows') = Len(rows) + 1
            /\ SubSeq(rows', 1, Len(rows)) = rows
            /\ rows'[Len(rows')].sender_id = sends[i].senderId
            /\ rows'[Len(rows')].content # <<>>
            /\ rows'[Len(rows')].content = Trim(rows'[Len(rows')].content)
            /\ rows'[Len(rows')].content = Trim(sends[i].content)
    ]_vars

\* C33 witness: the send_message of user 1 with content " h" is written as a
\* row of sender 1 with content "h"
C33_Witness ==
  /\ Len(sends) = 1 /\ sends[1].at = "written" /\ sends[1].content = <<" ", "h">>
  /\ Len(rows) = 1 /\ rows[1].sender_id = 1 /\ rows[1].content = <<"h">>
  /\ sockets[sends[1].sock].userId = 1

\* C34: the payload of every new_message emitted is, in senderId, receiverId,
\* content, senderName and timestamp, the record message_history gives for the
\* row of the same id
C34_BroadcastAgreesWithHistory ==
  \A s \in Sockets : \A i \in DOMAIN emitted[s] :
    emitted[s][i].ev = "new_message" =>
      LET m == emitted[s][i].body[1]
      IN \E k \in DOMAIN Messages :
           /\ Messages[k].id = m.id
           /\ Formatted(Messages[k]).senderId = m.senderId
           /\ Formatted(Messages[k]).receiverId = m.receiverId
           /\ Formatted(Messages[k]).content = m.content
           /\ Formatted(Messages[k]).senderName = m.senderName
           /\ Formatted(Messages[k]).timestamp = m.timestamp

\* C35: onlineUsers holds at most one entry per connection id, and the userId
\* of the entry of a connection is the bound user of that connection
C35_RegistryEntryIsBoundUser ==
  \A a \in DOMAIN onlineUsers :
    /\ onlineUsers[a].socketId \in Sockets
    /\ onlineUsers[a].userId = sockets[onlineUsers[a].socketId].userId
    /\ \A b \in DOMAIN onlineUsers :
         onlineUsers[a].socketId = onlineUsers[b].socketId => a = b

\* C35 witness: a connection bound to user 2, with its entry, has another
\* authenticate in flight whose token is of user 1
C35_Witness ==
  \E s \in Sockets :
    /\ sockets[s].userId = 2
    /\ \E a \in DOMAIN onlineUsers :
         onlineUsers[a].socketId = s /\ onlineUsers[a].userId = 2
    /\ \E h \in BagToSet(auths) : h.sock = s /\ h.token.id = 1

C37_ReceivedMessageStaysInList ==
  \A id \in client.received :
    \E k \in DOMAIN client.messages : client.messages[k].id = id

\* C38: the message list of the client holds no two entries with the same id
C38_ListHasNoDuplicateId ==
  \A a \in DOMAIN client.messages : \A b \in DOMAIN client.messages :
    client.messages[a].id = client.messages[b].id => a = b

\* C38 witness: a message_history holding message 1 and the new_message for
\* message 1 have both been handled and are done with; the list holds message
\* 1 once, as the history gave it
C38_Witness ==
  /\ Len(client.messages) = 1
  /\ client.messages[1].id = 1
  /\ client.received = {1}
  /\ client.messages[1].timestamp[1] = "sql"
  /\ sends = <<>> /\ joins = EmptyBag /\ Len(rows) = 1
  /\ emitted = NoEvents

\* C39: a client that is connected and authenticated with a friend selected
\* gets its current connection into the room of the conversation
C39_SelectedConversationIsJoined ==
  (ClientConnected /\ sockets[ClientSocket].userId = ClientUser
     /\ client.selectedFriend # 0)
    ~> (RoomId(ClientUser, client.selectedFriend) \in sockets[ClientSocket].rooms)

=============================================================================
